---- MODULE Spec2Model ----
(***************************************************************************)
(* glfont: the glyph-atlas builder (LoadTrueTypeFont) and the text layout  *)
(* engine (Font.Printf, Font.Width, Font.SetColor).                        *)
(*                                                                         *)
(* The font file is the environment: what truetype.Parse, Face.GlyphBounds,*)
(* Font.Bounds and Context.DrawString answer is drawn from small sets.     *)
(* Bounds are rectangles in 26.6 fixed point (1/64 pixel) with Max >= Min. *)
(* float32 values are integers here: scales and origins are drawn from     *)
(* small integers, on which float32 arithmetic is exact.                   *)
(***************************************************************************)
EXTENDS Integers, Sequences, FiniteSets

\* ---- bounds of the model ------------------------------------------------
MaxGlyphs == 3      \* largest high - low + 1
MaxTextLen == 2     \* longest text handed to Printf / Width

\* ---- program constants --------------------------------------------------
AtlasSize == 1024
margin == 2
lowChar == 32

None == [op |-> "none"]

VARIABLES
    low, high,      \* the code point range handed to LoadTrueTypeFont
    parseOK,        \* whether truetype.Parse accepts the bytes
    face,           \* ch -> what ttfFace.GlyphBounds(ch) answers
    ttfBounds,      \* what ttf.Bounds(scale) answers
    pc,             \* "idle", "prepass", "pack", "built", "failed"
    ch,             \* loop variable of the two loops over [low, high]
    lineHeight,     \* local lineHeight
    x, y,           \* packing cursor
    rgba,           \* the atlas image: the clip rectangles drawn so far
    fontChar,       \* f.fontChar
    color,          \* f.color
    atlasWidth, atlasHeight,    \* f.atlasWidth, f.atlasHeight
    result,         \* what LoadTrueTypeFont returned: "pending", "nil", "font"
    err,            \* the error returned: "none", "parse", "bounds", "draw"
    ret             \* the Printf / Width call the caller is in, and what it did

vars == <<low, high, parseOK, face, ttfBounds, pc, ch, lineHeight, x, y, rgba,
          fontChar, color, atlasWidth, atlasHeight, result, err, ret>>

inputVars == <<low, high, parseOK, face, ttfBounds>>
fontVars == <<fontChar, color, atlasWidth, atlasHeight>>

\* ---- helpers -------------------------------------------------------------
\* v >> 6 on a signed integer: arithmetic shift, rounds toward minus infinity
Shr6(v) == v \div 64

max(a, b) == IF a > b THEN a ELSE b

\* a bounds rectangle of w x h (1/64 pixel), one pixel of left bearing and
\* two pixels of descent
Rect(w, h) == [MinX |-> 64, MinY |-> 128 - h, MaxX |-> 64 + w, MaxY |-> 128]

Px(n) == n * 64

\* ---- what the font file may answer ----------------------------------------
\* GlyphBounds(ch) = (bounds, advance, ok)
Glyph(w, h, a) == [ok |-> TRUE, bnd |-> Rect(w, h), adv |-> a]
NoGlyph == [ok |-> FALSE, bnd |-> Rect(0, 0), adv |-> 0]

\* the atlas builder is exercised on glyphs that are narrow, wide, below one
\* pixel (32/64) and missing, and on font boxes with zero and non-zero sides
BuildGlyphs ==
    {Glyph(w, h, 1950) : w \in {32, Px(400), Px(700)}, h \in {32, Px(10) + 32}}
        \cup {NoGlyph}
BuildBoxes == {Rect(w, h) : w \in {0, Px(600)}, h \in {0, Px(50)}}

\* the layout engine is exercised on fonts whose advances differ
LayoutGlyphs == {Glyph(Px(20), Px(30), a) : a \in {1728, 1950}}
LayoutBoxes == {Rect(Px(40), Px(50))}

InitOver(Lows, Glyphs, Boxes) ==
    /\ low \in Lows
    /\ high \in low .. (low + MaxGlyphs - 1)
    /\ parseOK \in BOOLEAN
    /\ face \in [low .. high -> Glyphs]
    /\ ttfBounds \in Boxes
    /\ pc = "idle"
    /\ ch = low
    /\ lineHeight = 0
    /\ x = 0
    /\ y = 0
    /\ rgba = <<>>
    /\ fontChar = <<>>
    /\ color = <<0, 0, 0, 0>>
    /\ atlasWidth = 0
    /\ atlasHeight = 0
    /\ result = "pending"
    /\ err = "none"
    /\ ret = None

\* ---- LoadTrueTypeFont ------------------------------------------------------
Fail(e) ==
    /\ pc' = "failed"
    /\ result' = "nil"
    /\ err' = e

\* read and parse the font, make the Font, set the atlas size
LoadBegin ==
    /\ pc = "idle"
    /\ IF ~parseOK
         THEN /\ Fail("parse")
              /\ UNCHANGED <<inputVars, ch, lineHeight, x, y, rgba, fontVars, ret>>
         ELSE /\ fontChar' = <<>>
              /\ color' = <<1, 1, 1, 1>>
              /\ lineHeight' = 0
              /\ atlasWidth' = AtlasSize
              /\ atlasHeight' = AtlasSize
              /\ ch' = low
              /\ pc' = "prepass"
              /\ UNCHANGED <<inputVars, x, y, rgba, result, err, ret>>

\* PrePassStep with the check of ok left out
PrePassStepUnchecked ==
    /\ pc = "prepass"
    /\ ch <= high
    /\ LET gBnd == face[ch].bnd
           gh == Shr6(gBnd.MaxY - gBnd.MinY)
       IN  /\ lineHeight' = max(lineHeight, gh)
           /\ ch' = ch + 1
           /\ UNCHANGED <<inputVars, pc, x, y, rgba, fontVars, result, err, ret>>

\* one turn of the first loop: the line height is the tallest glyph
PrePassStep ==
    /\ pc = "prepass"
    /\ ch <= high
    /\ IF ~face[ch].ok
         THEN /\ Fail("bounds")
              /\ UNCHANGED <<inputVars, ch, lineHeight, x, y, rgba, fontVars, ret>>
         ELSE LET gBnd == face[ch].bnd
                  gh == Shr6(gBnd.MaxY - gBnd.MinY)
              IN  /\ lineHeight' = max(lineHeight, gh)
                  /\ ch' = ch + 1
                  /\ UNCHANGED <<inputVars, pc, x, y, rgba, fontVars, result, err, ret>>

\* the black image and the cursor at the margin
BeginPack ==
    /\ pc = "prepass"
    /\ ch > high
    /\ rgba' = <<>>
    /\ x' = margin
    /\ y' = margin
    /\ ch' = low
    /\ pc' = "pack"
    /\ UNCHANGED <<inputVars, lineHeight, fontVars, result, err, ret>>

\* glyphSize clamping to 1 x 1 only when both sides of the font box are zero
glyphSizeBothZero(gBnd, ttfB) ==
    LET gh == Shr6(gBnd.MaxY - gBnd.MinY)
        gw == Shr6(gBnd.MaxX - gBnd.MinX)
    IN  IF gw = 0 \/ gh = 0
          THEN LET bw == Shr6(ttfB.MaxX - ttfB.MinX)
                   bh == Shr6(ttfB.MaxY - ttfB.MinY)
               IN  IF bw = 0 /\ bh = 0
                     THEN [gBnd |-> ttfB, gw |-> 1, gh |-> 1]
                     ELSE [gBnd |-> ttfB, gw |-> bw, gh |-> bh]
          ELSE [gBnd |-> gBnd, gw |-> gw, gh |-> gh]

\* the size of a glyph and the bounds its bearings are taken from
glyphSize(gBnd, ttfB) ==
    LET gh == Shr6(gBnd.MaxY - gBnd.MinY)
        gw == Shr6(gBnd.MaxX - gBnd.MinX)
    IN  IF gw = 0 \/ gh = 0
          THEN LET bw == Shr6(ttfB.MaxX - ttfB.MinX)
                   bh == Shr6(ttfB.MaxY - ttfB.MinY)
               IN  IF bw = 0 \/ bh = 0
                     THEN [gBnd |-> ttfB, gw |-> 1, gh |-> 1]
                     ELSE [gBnd |-> ttfB, gw |-> bw, gh |-> bh]
          ELSE [gBnd |-> gBnd, gw |-> gw, gh |-> gh]

\* whether the cursor, already moved past the glyph just placed, starts a row
wraps(nx, gw, aw) == nx + gw + margin > aw

\* one turn of the second loop: place, draw and record one glyph
PackStep ==
    /\ pc = "pack"
    /\ ch <= high
    /\ IF ~face[ch].ok
         THEN /\ Fail("bounds")
              /\ UNCHANGED <<inputVars, ch, lineHeight, x, y, rgba, fontVars, ret>>
         ELSE LET s == glyphSize(face[ch].bnd, ttfBounds)
                  gAscent == Shr6(-s.gBnd.MinY)
                  gdescent == Shr6(s.gBnd.MaxY)
                  char == [x |-> x, y |-> y, width |-> s.gw, height |-> s.gh,
                           advance |-> face[ch].adv,
                           bearingV |-> gdescent,
                           bearingH |-> Shr6(s.gBnd.MinX)]
                  clip == [x0 |-> x, y0 |-> y, x1 |-> x + s.gw, y1 |-> y + s.gh]
                  pt == <<0 - Shr6(s.gBnd.MinX) + x, gAscent + y>>
                  nx == x + s.gw + margin
              IN  /\ IF wraps(nx, s.gw, atlasWidth)
                       THEN x' = 0 /\ y' = y + lineHeight + margin
                       ELSE x' = nx /\ y' = y
                  /\ \E drawOK \in BOOLEAN :
                       IF drawOK
                         THEN /\ rgba' = Append(rgba, [clip |-> clip, pt |-> pt])
                              /\ fontChar' = Append(fontChar, char)
                              /\ ch' = ch + 1
                              /\ UNCHANGED <<pc, result, err>>
                         ELSE /\ Fail("draw")
                              /\ UNCHANGED <<rgba, fontChar, ch>>
                  /\ UNCHANGED <<inputVars, lineHeight, color, atlasWidth,
                                 atlasHeight, ret>>

\* the texture and the buffers are made and the font is returned
Finish ==
    /\ pc = "pack"
    /\ ch > high
    /\ pc' = "built"
    /\ result' = "font"
    /\ UNCHANGED <<inputVars, ch, lineHeight, x, y, rgba, fontVars, err, ret>>

InitBuild == InitOver({lowChar}, BuildGlyphs, BuildBoxes)

NextBuild ==
    \/ LoadBegin
    \/ PrePassStep
    \/ BeginPack
    \/ PackStep
    \/ Finish

SpecBuild == InitBuild /\ [][NextBuild]_vars

\* ---- the layout engine -------------------------------------------------------
CodePoints == (lowChar - 1) .. (lowChar + MaxGlyphs + 1)
Texts == UNION {[1 .. n -> CodePoints] : n \in 0 .. MaxTextLen}
Scales == {1, 3}
Origins == {<<0, 0>>, <<5, 7>>}
Colors == {<<1, 1, 1, 1>>, <<1, 0, 0, 1>>}

\* a / b in float32, kept as the pair of its operands
Div(a, b) == <<a, b>>

\* f.fontChar[i]: the runtime panics when i is no index of the slice
InRange(fc, i) == 0 <= i /\ i < Len(fc)

\* SetColor storing alpha in the atlas width
SetColorWrongField ==
    /\ pc = "built"
    /\ ret = None
    /\ \E c \in Colors :
         /\ color' = <<c[1], c[2], c[3], color[4]>>
         /\ atlasWidth' = c[4]
    /\ UNCHANGED <<inputVars, pc, ch, lineHeight, x, y, rgba, fontChar,
                   atlasHeight, result, err, ret>>

\* The font is used from one thread: a call starts when no call is running.
SetColor ==
    /\ pc = "built"
    /\ ret = None
    /\ \E c \in Colors : color' = c
    /\ UNCHANGED <<inputVars, pc, ch, lineHeight, x, y, rgba, fontChar,
                   atlasWidth, atlasHeight, result, err, ret>>

\* "skip runes that are not in font chacter range", as Printf tests it
PrintfSkip(runeIndex, n) == runeIndex - lowChar > n \/ runeIndex < lowChar

\* the six vertices of one glyph's quad
quad(c, px, py, scale, aw, ah) ==
    LET xpos == px + c.bearingH * scale
        ypos == py - (c.height - c.bearingV) * scale
        w == c.width * scale
        h == c.height * scale
        x1 == xpos
        x2 == xpos + w
        y1 == ypos
        y2 == ypos + h
    IN  << <<x1, y1, Div(c.x, aw), Div(c.y, ah)>>,
           <<x2, y1, Div(c.x + c.width, aw), Div(c.y, ah)>>,
           <<x1, y2, Div(c.x, aw), Div(c.y + c.height, ah)>>,
           <<x2, y1, Div(c.x + c.width, aw), Div(c.y, ah)>>,
           <<x1, y2, Div(c.x, aw), Div(c.y + c.height, ah)>>,
           <<x2, y2, Div(c.x + c.width, aw), Div(c.y + c.height, ah)>> >>

\* Printf's loop from the i-th rune on; st is the pen, the vertices so far and
\* the indices f.fontChar was read at
RECURSIVE printfFrom(_, _, _, _, _, _, _, _)
printfFrom(fc, aw, ah, py, scale, indices, i, st) ==
    IF i > Len(indices)
      THEN st
      ELSE LET runeIndex == indices[i]
               idx == runeIndex - lowChar
           IN  IF PrintfSkip(runeIndex, Len(fc))
                 THEN printfFrom(fc, aw, ah, py, scale, indices, i + 1, st)
                 ELSE IF ~InRange(fc, idx)
                   THEN [st EXCEPT !.outcome = "panic",
                                   !.lookups = Append(@, <<runeIndex, idx>>)]
                   ELSE printfFrom(fc, aw, ah, py, scale, indices, i + 1,
                          [st EXCEPT
                             !.coords = @ \o quad(fc[idx + 1], st.x, py, scale, aw, ah),
                             !.x = @ + Shr6(fc[idx + 1].advance) * scale,
                             !.lookups = Append(@, <<runeIndex, idx>>)])

printf(fc, aw, ah, px, py, scale, indices) ==
    LET st0 == [outcome |-> "ok", x |-> px, coords |-> <<>>, lookups |-> <<>>]
    IN  IF Len(indices) = 0
          THEN st0
          ELSE printfFrom(fc, aw, ah, py, scale, indices, 1, st0)

Printf ==
    /\ pc = "built"
    /\ ret = None
    /\ \E o \in Origins, scale \in Scales, fs \in Texts :
         LET r == printf(fontChar, atlasWidth, atlasHeight, o[1], o[2], scale, fs)
         IN  ret' = [op |-> "Printf", x0 |-> o[1], y0 |-> o[2], scale |-> scale,
                     text |-> fs, outcome |-> r.outcome, x |-> r.x,
                     coords |-> r.coords, lookups |-> r.lookups]
    /\ UNCHANGED <<inputVars, pc, ch, lineHeight, x, y, rgba, fontVars, result, err>>

\* WidthSkip also skipping the rune one past the table
WidthSkipPastEnd(runeIndex, n) == runeIndex - lowChar >= n \/ runeIndex < lowChar

\* "skip runes that are not in font chacter range", as Width tests it
WidthSkip(runeIndex, n) == runeIndex - lowChar > n \/ runeIndex < lowChar

RECURSIVE widthFrom(_, _, _, _, _)
widthFrom(fc, scale, indices, i, st) ==
    IF i > Len(indices)
      THEN st
      ELSE LET runeIndex == indices[i]
               idx == runeIndex - lowChar
           IN  IF WidthSkip(runeIndex, Len(fc))
                 THEN widthFrom(fc, scale, indices, i + 1, st)
                 ELSE IF ~InRange(fc, idx)
                   THEN [st EXCEPT !.outcome = "panic",
                                   !.lookups = Append(@, <<runeIndex, idx>>)]
                   ELSE widthFrom(fc, scale, indices, i + 1,
                          [st EXCEPT
                             !.width = @ + Shr6(fc[idx + 1].advance) * scale,
                             !.lookups = Append(@, <<runeIndex, idx>>)])

width(fc, scale, indices) ==
    LET st0 == [outcome |-> "ok", width |-> 0, lookups |-> <<>>]
    IN  IF Len(indices) = 0
          THEN st0
          ELSE widthFrom(fc, scale, indices, 1, st0)

Width ==
    /\ pc = "built"
    /\ ret = None
    /\ \E scale \in Scales, fs \in Texts :
         LET r == width(fontChar, scale, fs)
         IN  ret' = [op |-> "Width", scale |-> scale, text |-> fs,
                     outcome |-> r.outcome, width |-> r.width,
                     lookups |-> r.lookups]
    /\ UNCHANGED <<inputVars, pc, ch, lineHeight, x, y, rgba, fontVars, result, err>>

\* the call returns to its caller; a panic ends the program instead
Return ==
    /\ ret # None
    /\ ret.outcome = "ok"
    /\ ret' = None
    /\ UNCHANGED <<inputVars, pc, ch, lineHeight, x, y, rgba, fontVars, result, err>>

Init == InitOver({lowChar, lowChar + 1}, LayoutGlyphs, LayoutBoxes)

Next ==
    \/ LoadBegin
    \/ PrePassStep
    \/ BeginPack
    \/ PackStep
    \/ Finish
    \/ SetColor
    \/ Printf
    \/ Width
    \/ Return

Spec == Init /\ [][Next]_vars

\* ==== the atlas builder's properties (checked under SpecBuild) ===============
Entries == 1 .. Len(fontChar)

\* the code point the i-th entry of the table was built for
BuiltFor(i) == low + i - 1

Overlap(a, b) ==
    /\ a.x < b.x + b.width
    /\ b.x < a.x + a.width
    /\ a.y < b.y + b.height
    /\ b.y < a.y + a.height

\* C1: after a successful build no two glyph rectangles
\* [x, x+width) x [y, y+height) of the table overlap.
C1_NoOverlap ==
    pc = "built" =>
        \A i, j \in Entries : i < j => ~Overlap(fontChar[i], fontChar[j])

\* C2: after a successful build every glyph rectangle lies within the atlas:
\* 0 <= x, 0 <= y, x + width <= atlasWidth, y + height <= atlasHeight.
C2_InsideAtlas ==
    pc = "built" =>
        \A i \in Entries :
            /\ 0 <= fontChar[i].x
            /\ 0 <= fontChar[i].y
            /\ fontChar[i].x + fontChar[i].width <= atlasWidth
            /\ fontChar[i].y + fontChar[i].height <= atlasHeight

\* the pixel size the glyph's own bounds give, and the font box's
OwnW(c) == Shr6(face[c].bnd.MaxX - face[c].bnd.MinX)
OwnH(c) == Shr6(face[c].bnd.MaxY - face[c].bnd.MinY)
BoxW == Shr6(ttfBounds.MaxX - ttfBounds.MinX)
BoxH == Shr6(ttfBounds.MaxY - ttfBounds.MinY)

\* C5: every entry of the table has width > 0 and height > 0; a glyph with a
\* zero side takes the font's bounding box, and 1 x 1 when that has a zero
\* side too; a glyph with no zero side keeps its own size.
C5_PositiveSize ==
    \A i \in Entries :
        LET e == fontChar[i]
            c == BuiltFor(i)
        IN  /\ e.width > 0
            /\ e.height > 0
            /\ (OwnW(c) # 0 /\ OwnH(c) # 0) =>
                   e.width = OwnW(c) /\ e.height = OwnH(c)
            /\ ((OwnW(c) = 0 \/ OwnH(c) = 0) /\ BoxW # 0 /\ BoxH # 0) =>
                   e.width = BoxW /\ e.height = BoxH
            /\ ((OwnW(c) = 0 \/ OwnH(c) = 0) /\ (BoxW = 0 \/ BoxH = 0)) =>
                   e.width = 1 /\ e.height = 1

\* a built font holding a glyph with one zero side that was clamped to 1 x 1
\* and a glyph that kept its own size
C5_Witness ==
    /\ pc = "built"
    /\ BoxW # 0
    /\ BoxH = 0
    /\ \E i, j \in Entries :
        /\ OwnW(BuiltFor(i)) # 0
        /\ OwnH(BuiltFor(i)) = 0
        /\ fontChar[i].width = 1
        /\ fontChar[i].height = 1
        /\ fontChar[j].width = OwnW(BuiltFor(j))
        /\ fontChar[j].width > 1

\* C7: the build returns a font with exactly one entry for every code point
\* of [low, high], in order, or returns an error and no font; it returns no
\* font when parsing fails, when any code point of the range has no bounds, or
\* when drawing fails; a bounds failure is returned before any glyph has been
\* placed or drawn.
C7_AllOrNothing ==
    /\ result = "font" <=> pc = "built"
    /\ result = "nil" <=> pc = "failed"
    /\ result = "nil" <=> err # "none"
    /\ result = "font" =>
        /\ Len(fontChar) = high - low + 1
        /\ Len(rgba) = high - low + 1
        /\ \A i \in Entries :
              LET s == glyphSize(face[BuiltFor(i)].bnd, ttfBounds)
              IN  /\ fontChar[i].width = s.gw
                  /\ fontChar[i].height = s.gh
                  /\ fontChar[i].advance = face[BuiltFor(i)].adv
    /\ (~parseOK \/ \E c \in low .. high : ~face[c].ok) => result # "font"
    /\ err = "bounds" => Len(fontChar) = 0 /\ Len(rgba) = 0
    /\ err = "draw" => Len(fontChar) < high - low + 1

\* the build failed on the bounds of a code point that is not the first
C7_Witness ==
    /\ pc = "failed"
    /\ err = "bounds"
    /\ ch > low
    /\ face[low].ok

\* C9: in the packing loop the cursor is always where the next glyph fits the
\* row (x + its width <= atlasWidth), so every glyph placed has
\* x + width <= atlasWidth.
C9_NextGlyphFitsRow ==
    /\ (pc = "pack" /\ ch <= high /\ face[ch].ok) =>
           x + glyphSize(face[ch].bnd, ttfBounds).gw <= atlasWidth
    /\ \A i \in Entries : fontChar[i].x + fontChar[i].width <= atlasWidth

\* ==== the layout engine's properties (checked under Spec) ====================
\* whether code point c is one the layout is meant to keep for a table of n
Retained(c, n) == lowChar <= c /\ c < lowChar + n

RECURSIVE CountRetained(_, _)
CountRetained(text, n) ==
    IF text = <<>>
      THEN 0
      ELSE (IF Retained(Head(text), n) THEN 1 ELSE 0) + CountRetained(Tail(text), n)

\* C3: Printf and Width complete without failing on every text; a code point
\* below 32 or at or above 32 + tableSize is skipped, and f.fontChar is never
\* read at an index outside [0, tableSize).
C3_LayoutNeverFails ==
    ret # None =>
        /\ ret.outcome = "ok"
        /\ \A k \in 1 .. Len(ret.lookups) : InRange(fontChar, ret.lookups[k][2])
        /\ Len(ret.lookups) = CountRetained(ret.text, Len(fontChar))
        /\ ret.op = "Printf" =>
               Len(ret.coords) = 6 * CountRetained(ret.text, Len(fontChar))

\* the sum of (advance >> 6) * scale over the retained code points of text
RECURSIVE MeasureSum(_, _, _)
MeasureSum(fc, scale, text) ==
    IF text = <<>>
      THEN 0
      ELSE (IF Retained(Head(text), Len(fc))
              THEN Shr6(fc[Head(text) - lowChar + 1].advance) * scale
              ELSE 0)
           + MeasureSum(fc, scale, Tail(text))

\* C4: Width returns the sum of (advance >> 6) * scale over exactly the code
\* points c of the text with 32 <= c < 32 + tableSize; the others add zero.
C4_WidthIsSum ==
    (ret # None /\ ret.op = "Width") =>
        /\ ret.outcome = "ok"
        /\ ret.width = MeasureSum(fontChar, ret.scale, ret.text)

ShortTexts == {t \in Texts : Len(t) <= 1}

\* C8: once the font is built, no step changes the glyph table or the atlas
\* size; only SetColor changes the colour; and measuring any text gives the
\* same answer after the step as before it.
C8_FrozenOnceBuilt ==
    [][pc = "built" =>
          /\ pc' = "built"
          /\ fontChar' = fontChar
          /\ atlasWidth' = atlasWidth
          /\ atlasHeight' = atlasHeight
          /\ ret' # ret => color' = color
          /\ \A s \in Scales, t \in ShortTexts :
                width(fontChar', s, t) = width(fontChar, s, t)]_vars

\* a measurement made after the colour was changed
C8_Witness ==
    /\ pc = "built"
    /\ color # <<1, 1, 1, 1>>
    /\ ret # None
    /\ ret.op = "Width"
    /\ ret.width > 0

\* C10: whatever range [low, high] the font was built over, in every call
\* that completes the entry Printf and Width read for a code point c is the
\* one built for c (index c - low), and they keep exactly the code points of
\* [low, high].
C10_LookupByBuiltRange ==
    (ret # None /\ ret.outcome = "ok") =>
        /\ \A k \in 1 .. Len(ret.lookups) :
              /\ ret.lookups[k][2] = ret.lookups[k][1] - low
              /\ ret.lookups[k][1] \in low .. high
        /\ Len(ret.lookups) =
               Cardinality({k \in 1 .. Len(ret.text) : ret.text[k] \in low .. high})

====
